---------------------------- MODULE Spec2Model ----------------------------
(***************************************************************************)
(* A model of pickletrack: the scraper (src/bin/scrape/main.rs) that       *)
(* enumerates venues by adaptive quadrant subdivision and filters them by  *)
(* their reviews, and the server (src/bin/server) that keeps a reloadable  *)
(* listing behind an RwLock and picks a bar by distance-weighted draw.     *)
(*                                                                         *)
(* Coordinates are integers: one grid step stands for one representable    *)
(* coordinate value, so a midpoint that falls between two grid values is   *)
(* rounded to one of them, as the f64 midpoint is.  Distances are whole    *)
(* miles (rounded up), utilities whole units (rounded down).               *)
(***************************************************************************)
EXTENDS Integers, Sequences, FiniteSets, TLC

VARIABLES
    \* ---- scraper: the world it queries
    venues,         \* the venues that exist: a sequence of FoursquareBar records
    svc,            \* how the venue search behaves: [kind, minArea]
    tipsOf,         \* the reviews the tips endpoint holds for each venue id
    \* ---- scraper: get_bars
    unexplored,     \* Vec<BoundingBox>, the work stack (top = last element)
    next,           \* the box popped last
    bars,           \* Vec<FoursquareBar>: get_bars' output, the filter's input
    response,       \* outcome of the most recent venue search
    fetches,        \* number of venue searches issued so far
    gpc,            \* position of get_bars
    \* ---- scraper: scrape_pickleback_bars
    processed,      \* loop counter of the filter
    visited,        \* HashSet<String> of ids seen
    pickle_bars,    \* Vec<Bar>, the filter's output
    tipResponse,    \* outcome of the most recent tips fetch
    tipFetches,     \* tips fetches issued, as a sequence of venue ids
    slept,          \* ten-minute sleeps taken for the venue being fetched
    fpc,            \* position of scrape_pickleback_bars
    \* ---- server: BarListing and the file it loads
    file,           \* what static/data/current.json holds right now
    listing,        \* BarListing.bars, the Vec<Bar> inside the RwLock
    readers,        \* 1 while locate_pickleback holds the read guard, else 0
    writer,         \* TRUE while reload_bars holds the write guard
    rpc,            \* position of reload_bars (the timer thread)
    rlog,           \* the last line reload_bars logged
    fh,             \* the content behind the File handle reload_bars opened
    parsed,         \* the Vec<Bar> serde_json::from_reader gave reload_bars
    lastGood,       \* history: the Vec<Bar> of the latest successful parse
    lpc,            \* position of the locate request in flight
    query,          \* lat/lng of the locate request
    total_utility,  \* pass 1's sum
    choice,         \* the random draw
    result,         \* what locate_pickleback returned
    reply,          \* the JSON body the /locate handler answered with
    \* ---- scrape's main: the files under static/data
    today,          \* Utc::today() of the run, as a day number
    files,          \* the dated files: for each day, whether it exists and its content
    current,        \* the symlink static/data/current.json: its target, if it exists
    runs,           \* runs of the scrape binary started so far
    mpc             \* position of main

worldVars  == <<venues, svc, tipsOf>>
enumVars   == <<unexplored, next, bars, response, fetches, gpc>>
filterVars == <<processed, visited, pickle_bars, tipResponse, tipFetches, slept, fpc>>
serverVars == <<file, listing, readers, writer, rpc, rlog, fh, parsed, lastGood,
                lpc, query, total_utility, choice, result, reply>>
publishVars == <<today, files, current, runs, mpc>>
vars == <<worldVars, enumVars, filterVars, serverVars, publishVars>>

None == "none"

(***************************************************************************)
(* Bounds of the model.  The region, the cell size, the margin and the cap *)
(* are the program's constants scaled down to a grid TLC can enumerate.    *)
(***************************************************************************)
GridCols == 2       \* cells per row    (source: 33000 / 3000 = 11)
GridRows == 1       \* cells per column (source: 48000 / 3000 = 16)
DEFAULT_SEARCH_SIZE_METERS == 4                     \* source: 3000
SEED_MARGIN_METERS == 1                             \* source: 10
FOURSQUARE_MAX_VENUES_PER_QUERY == 2                \* source: 50
MaxVenues == 3      \* venues placed in the world
MaxDepth == 6       \* subdivisions in a row the work stack has room for
MaxCoord == 2       \* SpecQuad draws box corners from -MaxCoord..MaxCoord

\* The asserts of scrape_pickleback_bars demand that the region is a whole
\* number of cells; the region is therefore given by its cell counts.
MANHATTAN_BOUNDING_BOX_WIDTH_METERS == GridCols * DEFAULT_SEARCH_SIZE_METERS
MANHATTAN_BOUNDING_BOX_HEIGHT_METERS == GridRows * DEFAULT_SEARCH_SIZE_METERS
MANHATTAN_BOUNDING_BOX_TOPLEFT == [latitude |-> 40, longitude |-> -74]

StackLimit == GridCols * GridRows + 3 * MaxDepth

(***************************************************************************)
(* Geometry of the scraper.                                                *)
(***************************************************************************)
LatLong(lat, lon) == [latitude |-> lat, longitude |-> lon]

BoundingBox(sw, ne) == [sw |-> sw, ne |-> ne]

\* offset_latlong: the source is always MANHATTAN_BOUNDING_BOX_TOPLEFT, so
\* cos(source.latitude) is one constant and the offset is linear in dn and
\* de.  The grid's unit is the coordinate change of one metre on each axis.
offset_latlong(source, dn, de) ==
    LatLong(source.latitude + dn, source.longitude + de)

\* Faulty variant: the midpoint taken from the north-east corner alone.
MidpointOfNe(a, b) == (b + b) \div 2

\* (a + b) / 2.0 on the grid: rounded to a grid value between a and b.
Midpoint(a, b) == (a + b) \div 2

split_to_quadrants_wrong_corner(source) ==
    LET midpoint_lat == Midpoint(source.sw.latitude, source.ne.latitude)
        midpoint_lon == Midpoint(source.sw.longitude, source.ne.longitude)
    IN  << BoundingBox(LatLong(midpoint_lat, source.sw.longitude),
                       LatLong(source.ne.latitude, midpoint_lon)),
           BoundingBox(LatLong(midpoint_lat, midpoint_lon),
                       LatLong(source.ne.latitude, source.ne.longitude)),
           BoundingBox(LatLong(source.sw.latitude, source.sw.longitude),
                       LatLong(midpoint_lat, midpoint_lon)),
           \* the bottom right quadrant repeats the top right one
           BoundingBox(LatLong(midpoint_lat, midpoint_lon),
                       LatLong(source.ne.latitude, source.ne.longitude)) >>

split_to_quadrants(source) ==
    LET midpoint_lat == Midpoint(source.sw.latitude, source.ne.latitude)
        midpoint_lon == Midpoint(source.sw.longitude, source.ne.longitude)
    IN  << \* Top left
           BoundingBox(LatLong(midpoint_lat, source.sw.longitude),
                       LatLong(source.ne.latitude, midpoint_lon)),
           \* Top right
           BoundingBox(LatLong(midpoint_lat, midpoint_lon),
                       LatLong(source.ne.latitude, source.ne.longitude)),
           \* Bottom left
           BoundingBox(LatLong(source.sw.latitude, source.sw.longitude),
                       LatLong(midpoint_lat, midpoint_lon)),
           \* Bottom right
           BoundingBox(LatLong(source.sw.latitude, midpoint_lon),
                       LatLong(midpoint_lat, source.ne.longitude)) >>

\* The value of next before the first pop.
NoBox == BoundingBox(MANHATTAN_BOUNDING_BOX_TOPLEFT, MANHATTAN_BOUNDING_BOX_TOPLEFT)

\* A point lies in a box when it is between its corners, edges included.
InBox(lat, lon, box) ==
    /\ box.sw.latitude <= lat /\ lat <= box.ne.latitude
    /\ box.sw.longitude <= lon /\ lon <= box.ne.longitude

Area(box) ==
    (box.ne.latitude - box.sw.latitude) * (box.ne.longitude - box.sw.longitude)

\* Faulty variant: the margin applied with the wrong sign, so that seed cells shrink
\* away from each other instead of overlapping.
SeedCellShrunk(de, dn) ==
    BoundingBox(
        offset_latlong(MANHATTAN_BOUNDING_BOX_TOPLEFT,
                       -((dn + 1) * DEFAULT_SEARCH_SIZE_METERS - SEED_MARGIN_METERS),
                       de * DEFAULT_SEARCH_SIZE_METERS + SEED_MARGIN_METERS),
        offset_latlong(MANHATTAN_BOUNDING_BOX_TOPLEFT,
                       -(dn * DEFAULT_SEARCH_SIZE_METERS + SEED_MARGIN_METERS),
                       (de + 1) * DEFAULT_SEARCH_SIZE_METERS - SEED_MARGIN_METERS))

\* The seed cell of get_bars' double loop for column de and row dn.
SeedCell(de, dn) ==
    BoundingBox(
        offset_latlong(MANHATTAN_BOUNDING_BOX_TOPLEFT,
                       -((dn + 1) * DEFAULT_SEARCH_SIZE_METERS + SEED_MARGIN_METERS),
                       de * DEFAULT_SEARCH_SIZE_METERS - SEED_MARGIN_METERS),
        offset_latlong(MANHATTAN_BOUNDING_BOX_TOPLEFT,
                       -(dn * DEFAULT_SEARCH_SIZE_METERS - SEED_MARGIN_METERS),
                       (de + 1) * DEFAULT_SEARCH_SIZE_METERS + SEED_MARGIN_METERS))

\* unexplored after the seeding loops: de outer, dn inner, pushed in order.
SeedStack ==
    LET cols == MANHATTAN_BOUNDING_BOX_WIDTH_METERS \div DEFAULT_SEARCH_SIZE_METERS
        rows == MANHATTAN_BOUNDING_BOX_HEIGHT_METERS \div DEFAULT_SEARCH_SIZE_METERS
    IN  [k \in 1..(cols * rows) |-> SeedCell((k - 1) \div rows, (k - 1) % rows)]

\* The region the scrape is meant to cover: from the top left corner, the
\* height southwards and the width eastwards.
TargetRegion ==
    BoundingBox(
        offset_latlong(MANHATTAN_BOUNDING_BOX_TOPLEFT,
                       -MANHATTAN_BOUNDING_BOX_HEIGHT_METERS, 0),
        offset_latlong(MANHATTAN_BOUNDING_BOX_TOPLEFT,
                       0, MANHATTAN_BOUNDING_BOX_WIDTH_METERS))


(***************************************************************************)
(* The world the scraper queries: venues and the venue search service.     *)
(***************************************************************************)
VenueIds == <<"v1", "v2", "v3", "v4", "v5">>

\* Where a venue can be: the region's top left corner, its interior, a point
\* on the line between the first two seed columns, the region's bottom right
\* corner, and a point inside the seed margin but outside the region.
Sites ==
    << offset_latlong(MANHATTAN_BOUNDING_BOX_TOPLEFT, 0, 0),
       offset_latlong(MANHATTAN_BOUNDING_BOX_TOPLEFT, -2, 2),
       offset_latlong(MANHATTAN_BOUNDING_BOX_TOPLEFT, -1, DEFAULT_SEARCH_SIZE_METERS),
       offset_latlong(MANHATTAN_BOUNDING_BOX_TOPLEFT,
                      -MANHATTAN_BOUNDING_BOX_HEIGHT_METERS,
                      MANHATTAN_BOUNDING_BOX_WIDTH_METERS),
       offset_latlong(MANHATTAN_BOUNDING_BOX_TOPLEFT, SEED_MARGIN_METERS, 2) >>

\* Option<T>: None is the empty sequence, Some(x) the sequence of x alone.
NoneOpt == <<>>

Some(x) == <<x>>

\* FoursquareBar, with its FoursquareBarLocation.
FoursquareBar(id, site, state) ==
    [id |-> id, name |-> id,
     location |-> [lat |-> site.latitude, lng |-> site.longitude, state |-> state]]

\* Venue k of a placement p (a non-decreasing choice of sites: venues differ
\* only by id, so an order of the sites loses no placement).
Placements ==
    UNION { { p \in [1..n -> 1..Len(Sites)] :
                \A i \in 1..n : \A j \in 1..n : i <= j => p[i] <= p[j] }
            : n \in 0..MaxVenues }

PlacedVenues(p) ==
    [k \in DOMAIN p |-> FoursquareBar(VenueIds[k], Sites[p[k]], Some("NY"))]

\* The venues of sequence vs that lie in box, in vs' order.
SelectInBox(vs, box) ==
    SelectSeq(vs, LAMBDA v : InBox(v.location.lat, v.location.lng, box))

FirstN(s, n) == IF Len(s) <= n THEN s ELSE SubSeq(s, 1, n)

\* A search that tells the truth: every venue of the box when there are
\* fewer than the cap, and as many as the cap otherwise.
HonestFetch(box) ==
    FirstN(SelectInBox(venues, box), FOURSQUARE_MAX_VENUES_PER_QUERY)

\* A result the synthetic service pads its full answers with.
Filler == FoursquareBar("filler", MANHATTAN_BOUNDING_BOX_TOPLEFT, Some("NY"))

\* The synthetic service of the termination test: exactly the cap for a box
\* above the minimum area, the venues of the box below it.
SyntheticFetch(box) ==
    IF Area(box) > svc.minArea
    THEN [k \in 1..FOURSQUARE_MAX_VENUES_PER_QUERY |-> Filler]
    ELSE HonestFetch(box)

FetchFailures == {"transport_error", "non_success", "body_error", "unparsable"}

\* What one venue search can come back with.
Outcomes(box) ==
    CASE svc.kind = "honest"    -> {[status |-> "ok", venues |-> HonestFetch(box)]}
      [] svc.kind = "synthetic" -> {[status |-> "ok", venues |-> SyntheticFetch(box)]}
      [] svc.kind = "faulty"    ->
            {[status |-> "ok", venues |-> HonestFetch(box)]}
            \cup {[status |-> f, venues |-> <<>>] : f \in FetchFailures}

ServiceKinds ==
    {[kind |-> "honest", minArea |-> 0], [kind |-> "faulty", minArea |-> 0]}
    \cup {[kind |-> "synthetic", minArea |-> a] : a \in {1, DEFAULT_SEARCH_SIZE_METERS}}

(***************************************************************************)
(* get_bars: the enumeration loop.                                         *)
(***************************************************************************)
Top(stack) == stack[Len(stack)]

Pop(stack) == SubSeq(stack, 1, Len(stack) - 1)

\* Faulty variant: a failed fetch leaves the cell on the stack and the loop running.
FetchFailedRetries(out) ==
    /\ unexplored' = unexplored
    /\ gpc' = "loop"
    /\ bars' = bars

\* reqwest::get(..).unwrap(), assert!(status.is_success()), text().unwrap()
\* and serde_json::from_str(..).unwrap(): each failure panics.
FetchFailed(out) ==
    /\ unexplored' = Pop(unexplored)
    /\ gpc' = "panicked"
    /\ bars' = bars

GetBarsFetchFailed ==
    /\ gpc = "loop"
    /\ unexplored # <<>>
    /\ \E out \in Outcomes(Top(unexplored)) :
          /\ out.status # "ok"
          /\ next' = Top(unexplored)
          /\ response' = out.status
          /\ fetches' = fetches + 1
          /\ FetchFailed(out)
    /\ UNCHANGED <<worldVars, publishVars, filterVars, serverVars>>

\* Faulty variant: a cell that is its own quadrant is given up instead of split.
GetBarsSplitStopsAtPoint ==
    /\ gpc = "loop"
    /\ unexplored # <<>>
    /\ Len(unexplored) + 3 <= StackLimit
    /\ \E out \in Outcomes(Top(unexplored)) :
          /\ out.status = "ok"
          /\ Len(out.venues) = FOURSQUARE_MAX_VENUES_PER_QUERY
          /\ next' = Top(unexplored)
          /\ response' = out.status
          /\ fetches' = fetches + 1
          /\ unexplored' =
                IF \E q \in 1..4 : split_to_quadrants(Top(unexplored))[q] = Top(unexplored)
                THEN Pop(unexplored)
                ELSE Pop(unexplored) \o split_to_quadrants(Top(unexplored))
    /\ UNCHANGED <<bars, gpc, worldVars, publishVars, filterVars, serverVars>>

\* Faulty variant: a response of exactly the cap is split and kept as well.
GetBarsSplitKeepsVenues ==
    /\ gpc = "loop"
    /\ unexplored # <<>>
    /\ Len(unexplored) + 3 <= StackLimit
    /\ \E out \in Outcomes(Top(unexplored)) :
          /\ out.status = "ok"
          /\ Len(out.venues) = FOURSQUARE_MAX_VENUES_PER_QUERY
          /\ next' = Top(unexplored)
          /\ response' = out.status
          /\ fetches' = fetches + 1
          /\ unexplored' = Pop(unexplored) \o split_to_quadrants(Top(unexplored))
          /\ bars' = bars \o out.venues
    /\ UNCHANGED <<gpc, worldVars, publishVars, filterVars, serverVars>>

\* 50 results: the box is split and its results are dropped.
GetBarsSplit ==
    /\ gpc = "loop"
    /\ unexplored # <<>>
    /\ Len(unexplored) + 3 <= StackLimit
    /\ \E out \in Outcomes(Top(unexplored)) :
          /\ out.status = "ok"
          /\ Len(out.venues) = FOURSQUARE_MAX_VENUES_PER_QUERY
          /\ next' = Top(unexplored)
          /\ response' = out.status
          /\ fetches' = fetches + 1
          /\ unexplored' = Pop(unexplored) \o split_to_quadrants(Top(unexplored))
    /\ UNCHANGED <<bars, gpc, worldVars, publishVars, filterVars, serverVars>>

\* Fewer than 50 results: they are appended to the output.
GetBarsAccept ==
    /\ gpc = "loop"
    /\ unexplored # <<>>
    /\ \E out \in Outcomes(Top(unexplored)) :
          /\ out.status = "ok"
          /\ Len(out.venues) # FOURSQUARE_MAX_VENUES_PER_QUERY
          /\ next' = Top(unexplored)
          /\ response' = out.status
          /\ fetches' = fetches + 1
          /\ unexplored' = Pop(unexplored)
          /\ bars' = bars \o out.venues
    /\ UNCHANGED <<gpc, worldVars, publishVars, filterVars, serverVars>>

\* The stack is empty: get_bars returns bars.
GetBarsReturn ==
    /\ gpc = "loop"
    /\ unexplored = <<>>
    /\ gpc' = "returned"
    /\ UNCHANGED <<unexplored, next, bars, response, fetches,
                   worldVars, publishVars, filterVars, serverVars>>


(***************************************************************************)
(* The files of static/data.  A path is its sequence of components.        *)
(***************************************************************************)
MaxDays == 3        \* days on which the scrape binary is run
MaxRuns == 3        \* runs of the scrape binary

\* now.format("%Y%m%d") with the extension, for the days of the model.
DayNames == <<"20190101.json", "20190102.json", "20190103.json",
              "20190104.json", "20190105.json">>

\* format!("static/data/{}.json", now.format("%Y%m%d"))
DatePath(day) == <<"static", "data", DayNames[day]>>

\* format!("static/data/current.json")
SymlinkPath == <<"static", "data", "current.json">>

\* The directory a path is in.
Parent(path) == SubSeq(path, 1, Len(path) - 1)

\* Where a symlink at linkPath with the given target leads: a relative target
\* is resolved against the directory the link is in.
Resolve(linkPath, target) == Parent(linkPath) \o target

\* A dated file that was never created.
AbsentFile == [state |-> "absent", data |-> <<>>]

(***************************************************************************)
(* Values of the variables a specification does not use.                   *)
(***************************************************************************)
WorldIdle ==
    /\ venues = <<>>
    /\ svc = [kind |-> "honest", minArea |-> 0]
    /\ tipsOf = <<>>

EnumIdle ==
    /\ unexplored = <<>>
    /\ next = NoBox
    /\ bars = <<>>
    /\ response = None
    /\ fetches = 0
    /\ gpc = "idle"

FilterIdle ==
    /\ processed = 0
    /\ visited = {}
    /\ pickle_bars = <<>>
    /\ tipResponse = None
    /\ tipFetches = <<>>
    /\ slept = 0
    /\ fpc = "idle"

PublishIdle ==
    /\ today = 1
    /\ files = [d \in 1..MaxDays |-> AbsentFile]
    /\ current = NoneOpt
    /\ runs = 0
    /\ mpc = "idle"

ServerIdle ==
    /\ file = [kind |-> "missing"]
    /\ listing = <<>>
    /\ readers = 0
    /\ writer = FALSE
    /\ rpc = "idle"
    /\ rlog = None
    /\ fh = [kind |-> "missing"]
    /\ parsed = <<>>
    /\ lastGood = <<>>
    /\ lpc = "idle"
    /\ query = [lat |-> 0, lng |-> 0]
    /\ total_utility = 0
    /\ choice = 0
    /\ result = <<>>
    /\ reply = [id |-> "", name |-> "", comment |-> ""]

(***************************************************************************)
(* SpecEnum: get_bars against every placement and every service.           *)
(***************************************************************************)
\* Every box with corners on the grid the seed cells span.
HullBoxes ==
    LET hull == [sw |-> SeedCell(0, GridRows - 1).sw,
                 ne |-> SeedCell(GridCols - 1, 0).ne]
        lats == hull.sw.latitude..hull.ne.latitude
        lons == hull.sw.longitude..hull.ne.longitude
    IN  { BoundingBox(LatLong(a, c), LatLong(b, d)) :
            <<a, b, c, d>> \in { t \in lats \X lats \X lons \X lons :
                                   t[1] <= t[2] /\ t[3] <= t[4] } }

\* The synthetic service answers "fewer than the cap" below its minimum area:
\* it exists only for placements where such a box holds fewer venues.
SyntheticAdmits(vs, minArea) ==
    { box \in HullBoxes :
        /\ Area(box) <= minArea
        /\ Len(SelectInBox(vs, box)) >= FOURSQUARE_MAX_VENUES_PER_QUERY } = {}

InitEnum ==
    /\ \E p \in Placements : venues = PlacedVenues(p)
    /\ svc \in ServiceKinds
    /\ svc.kind = "synthetic" => SyntheticAdmits(venues, svc.minArea)
    /\ tipsOf = <<>>
    /\ unexplored = SeedStack
    /\ next = NoBox
    /\ bars = <<>>
    /\ response = None
    /\ fetches = 0
    /\ gpc = "loop"
    /\ FilterIdle
    /\ ServerIdle
    /\ PublishIdle

NextEnum ==
    \/ GetBarsFetchFailed
    \/ GetBarsSplit
    \/ GetBarsAccept
    \/ GetBarsReturn

\* get_bars is one sequential loop: it takes its next step whenever it can.
SpecEnum == InitEnum /\ [][NextEnum]_vars /\ WF_vars(NextEnum)

(***************************************************************************)
(* SpecQuad: split_to_quadrants applied to every box of a small grid.      *)
(***************************************************************************)
QuadInputs ==
    LET c == (-MaxCoord)..MaxCoord
    IN  { BoundingBox(LatLong(a, x), LatLong(b, y)) :
            <<a, b, x, y>> \in { t \in c \X c \X c \X c :
                                   t[1] <= t[2] /\ t[3] <= t[4] } }

InitQuad ==
    /\ WorldIdle
    /\ \E b \in QuadInputs : unexplored = <<b>>
    /\ next = NoBox
    /\ bars = <<>>
    /\ response = None
    /\ fetches = 0
    /\ gpc = "quad"
    /\ FilterIdle
    /\ ServerIdle
    /\ PublishIdle

\* The step of get_bars that replaces a box by its quadrants (line 258).
QuadSplit ==
    /\ gpc = "quad"
    /\ next' = Top(unexplored)
    /\ unexplored' = Pop(unexplored) \o split_to_quadrants(Top(unexplored))
    /\ gpc' = "quad_done"
    /\ UNCHANGED <<bars, response, fetches, worldVars, publishVars, filterVars, serverVars>>

NextQuad == QuadSplit

SpecQuad == InitQuad /\ [][NextQuad]_vars



(***************************************************************************)
(* Review texts.  A text is its sequence of characters, so that lowercasing *)
(* and substring search are computed as the code computes them.            *)
(***************************************************************************)
TIP_SEARCH_PHRASES ==
    << <<"p", "i", "c", "k", "l", "e", " ", "b", "a", "c", "k">>,
       <<"p", "i", "c", "k", "l", "e", "b", "a", "c", "k">>,
       <<"p", "i", "c", "k", "e", "l", " ", "b", "a", "c", "k">>,
       <<"p", "i", "c", "k", "e", "l", "b", "a", "c", "k">>,
       <<"p", "i", "c", "k", "l", "e", "-", "b", "a", "c", "k">>,
       <<"p", "i", "c", "k", "l", "e", "-", "b", "a", "c", "k">>,
       <<"p", "i", "c", "k", "l", "e", " ", "s", "h", "o", "t">>,
       <<"p", "i", "c", "k", "e", "l", " ", "s", "h", "o", "t">>,
       <<"p", "i", "c", "k", "l", "e", "-", "s", "h", "o", "t">>,
       <<"p", "i", "c", "k", "e", "l", "-", "s", "h", "o", "t">>,
       <<"s", "h", "o", "t", " ", "o", "f", " ", "p", "i", "c", "k", "l", "e">>,
       <<"s", "h", "o", "t", " ", "o", "f", " ", "p", "i", "c", "k", "e", "l">>,
       <<"s", "h", "o", "t", " ", "p", "i", "c", "k", "l", "e">>,
       <<"s", "h", "o", "t", " ", "p", "i", "c", "k", "e", "l">>,
       <<"p", "i", "c", "k", "l", "e", " ", "j", "u", "i", "c", "e">>,
       <<"p", "i", "c", "k", "e", "l", " ", "j", "u", "i", "c", "e">>,
       <<"p", "i", "c", "k", "l", "e", "-", "j", "u", "i", "c", "e">>,
       <<"p", "i", "c", "k", "e", "l", "-", "j", "u", "i", "c", "e">> >>

UpperCase == <<"A", "B", "C", "D", "E", "F", "G", "H", "I", "J", "K", "L", "M",
               "N", "O", "P", "Q", "R", "S", "T", "U", "V", "W", "X", "Y", "Z">>

LowerCase == <<"a", "b", "c", "d", "e", "f", "g", "h", "i", "j", "k", "l", "m",
               "n", "o", "p", "q", "r", "s", "t", "u", "v", "w", "x", "y", "z">>

\* str::to_lowercase, character by character.
to_lowercase(text) ==
    [i \in 1..Len(text) |->
        IF \E k \in 1..Len(UpperCase) : UpperCase[k] = text[i]
        THEN LowerCase[CHOOSE k \in 1..Len(UpperCase) : UpperCase[k] = text[i]]
        ELSE text[i]]

\* str::contains: the pattern occurs at some position of the text.
contains(text, pattern) ==
    \E i \in 1..(Len(text) - Len(pattern) + 1) :
        \A j \in 1..Len(pattern) : text[i + j - 1] = pattern[j]

\* The reviews the model's venues can have.
TextPickleback      == <<"P", "i", "c", "k", "l", "e", "b", "a", "c", "k", "!">>
TextPicklebackLower == <<"p", "i", "c", "k", "l", "e", "b", "a", "c", "k", "!">>
TextTwoPhrases      == <<"p", "i", "c", "k", "l", "e", "-", "b", "a", "c", "k", ",", " ", "p", "i", "c", "k", "l", "e", " ", "j", "u", "i", "c", "e">>
TextBeer            == <<"G", "o", "o", "d", " ", "b", "e", "e", "r">>

(***************************************************************************)
(* scrape_pickleback_bars: the filter over get_bars' output.               *)
(***************************************************************************)
PROGRESS_STEPS == 100
MaxShort == 2       \* short venue lists have 0..MaxShort venues
ExtraLen == 1       \* long venue lists have 100..100 + ExtraLen venues
MaxSleeps == 2      \* ten-minute sleeps the model follows per venue

Bar(id, name, lat, lng, tips) ==
    [id |-> id, name |-> name, lat |-> lat, lng |-> lng, tips |-> tips]

\* The venues the filter's inputs are made of: v3 comes from the search once
\* with state "NJ" and once with "NY", v4 without a state.
PoolA   == FoursquareBar("v1", Sites[1], Some("NY"))
PoolB   == FoursquareBar("v2", Sites[2], Some("NY"))
PoolC   == FoursquareBar("v3", Sites[3], Some("NJ"))
PoolCny == FoursquareBar("v3", Sites[3], Some("NY"))
PoolD   == FoursquareBar("v4", Sites[4], NoneOpt)
PoolE   == FoursquareBar("v5", Sites[5], Some("NY"))

Patterns ==
    { <<PoolA, PoolB, PoolC, PoolD, PoolE>>,
      <<PoolC, PoolCny, PoolA, PoolA, PoolE>>,
      <<PoolB, PoolD>> }

Cycle(pattern, n) == [k \in 1..n |-> pattern[((k - 1) % Len(pattern)) + 1]]

FilterInputs ==
    { Cycle(pat, n) :
        pat \in Patterns,
        n \in (0..MaxShort) \cup (PROGRESS_STEPS..(PROGRESS_STEPS + ExtraLen)) }

\* What the tips endpoint holds (FoursquareTipsItems.items) for each id.
TipWorlds ==
    { [id \in {"v1", "v2", "v3", "v4", "v5"} |->
         CASE id = "v1" -> <<TextPickleback, TextBeer, TextPicklebackLower, TextPickleback>>
           [] id = "v2" -> <<TextBeer>>
           [] id = "v3" -> <<TextPickleback>>
           [] id = "v4" -> <<TextPicklebackLower>>
           [] id = "v5" -> <<TextTwoPhrases>>],
      [id \in {"v1", "v2", "v3", "v4", "v5"} |->
         CASE id = "v1" -> <<>>
           [] id = "v2" -> <<TextTwoPhrases, TextBeer, TextTwoPhrases>>
           [] id = "v3" -> <<TextBeer>>
           [] id = "v4" -> <<>>
           [] id = "v5" -> <<TextPicklebackLower, TextPickleback>>] }

\* let bars_100: usize = bars.len() / 100;
bars_100 == Len(bars) \div PROGRESS_STEPS

\* Faulty variant: a matching text is pushed even when tips holds it already.
RECURSIVE CollectTipsKeepsRepeats(_, _, _)
CollectTipsKeepsRepeats(items, k, tips) ==
    IF k > Len(items) THEN tips
    ELSE LET text == items[k]
             hit == \E n \in 1..Len(TIP_SEARCH_PHRASES) :
                        contains(to_lowercase(text), TIP_SEARCH_PHRASES[n])
         IN  CollectTipsKeepsRepeats(items, k + 1,
                                     IF hit THEN Append(tips, text) ELSE tips)

\* The for loops over the items and the phrases: a text is pushed when its
\* lowercase form contains a phrase and tips does not hold the text yet.
RECURSIVE CollectTips(_, _, _)
CollectTips(items, k, tips) ==
    IF k > Len(items) THEN tips
    ELSE LET text == items[k]
             hit == \E n \in 1..Len(TIP_SEARCH_PHRASES) :
                        contains(to_lowercase(text), TIP_SEARCH_PHRASES[n])
             held == \E m \in 1..Len(tips) : tips[m] = text
         IN  CollectTips(items, k + 1,
                         IF hit /\ ~held THEN Append(tips, text) ELSE tips)

\* bar.location.state.is_none() || bar.location.state.unwrap() != "NY"
RegionDropped(bar) ==
    IF bar.location.state = NoneOpt THEN TRUE ELSE bar.location.state[1] # "NY"

\* The venue the loop body is working on: processed was already incremented.
CurrentBar == bars[processed]

\* processed % bars_100 with bars_100 = 0: the remainder panics.
FilterProgressPanics ==
    /\ fpc = "loop"
    /\ processed < Len(bars)
    /\ bars_100 = 0
    /\ fpc' = "panicked"
    /\ UNCHANGED <<processed, visited, pickle_bars, tipResponse, tipFetches, slept,
                   worldVars, publishVars, enumVars, serverVars>>

\* visited.contains(&bar.id): continue.
FilterSkipVisited ==
    /\ fpc = "loop"
    /\ processed < Len(bars)
    /\ bars_100 # 0
    /\ bars[processed + 1].id \in visited
    /\ processed' = processed + 1
    /\ UNCHANGED <<visited, pickle_bars, tipResponse, tipFetches, slept, fpc,
                   worldVars, publishVars, enumVars, serverVars>>

\* Faulty variant: the region test comes first and a dropped venue's id is
\* not inserted into visited.
FilterSkipRegionUnrecorded ==
    /\ fpc = "loop"
    /\ processed < Len(bars)
    /\ bars_100 # 0
    /\ RegionDropped(bars[processed + 1])
    /\ processed' = processed + 1
    /\ UNCHANGED <<visited, pickle_bars, tipResponse, tipFetches, slept, fpc,
                   worldVars, publishVars, enumVars, serverVars>>

\* The id is inserted; the state is absent or not "NY": continue.
FilterSkipRegion ==
    /\ fpc = "loop"
    /\ processed < Len(bars)
    /\ bars_100 # 0
    /\ LET bar == bars[processed + 1]
       IN  /\ bar.id \notin visited
           /\ visited' = visited \cup {bar.id}
           /\ RegionDropped(bar)
    /\ processed' = processed + 1
    /\ UNCHANGED <<pickle_bars, tipResponse, tipFetches, slept, fpc,
                   worldVars, publishVars, enumVars, serverVars>>

\* Faulty variant: the tips loop is entered without looking at visited.
FilterBeginFetchUnvisited ==
    /\ fpc = "loop"
    /\ processed < Len(bars)
    /\ bars_100 # 0
    /\ LET bar == bars[processed + 1]
       IN  /\ visited' = visited \cup {bar.id}
           /\ ~RegionDropped(bar)
           /\ tipFetches' = Append(tipFetches, bar.id)
    /\ processed' = processed + 1
    /\ slept' = 0
    /\ tipResponse' = None
    /\ fpc' = "fetch"
    /\ UNCHANGED <<pickle_bars, worldVars, publishVars, enumVars, serverVars>>

\* The id is inserted and the venue is in "NY": the tips loop is entered.
FilterBeginFetch ==
    /\ fpc = "loop"
    /\ processed < Len(bars)
    /\ bars_100 # 0
    /\ LET bar == bars[processed + 1]
       IN  /\ bar.id \notin visited
           /\ visited' = visited \cup {bar.id}
           /\ ~RegionDropped(bar)
           /\ tipFetches' = Append(tipFetches, bar.id)
    /\ processed' = processed + 1
    /\ slept' = 0
    /\ tipResponse' = None
    /\ fpc' = "fetch"
    /\ UNCHANGED <<pickle_bars, worldVars, publishVars, enumVars, serverVars>>

\* reqwest::get(&uri).unwrap() on a transport failure (line 314).
TipsTransportError ==
    /\ fpc = "fetch"
    /\ tipResponse' = "transport_error"
    /\ fpc' = "panicked"
    /\ UNCHANGED <<processed, visited, pickle_bars, tipFetches, slept,
                   worldVars, publishVars, enumVars, serverVars>>

\* A response that is not a success: sleep ten minutes and go round again.
TipsNonSuccess ==
    /\ fpc = "fetch"
    /\ slept < MaxSleeps
    /\ tipResponse' = "non_success"
    /\ slept' = slept + 1
    /\ UNCHANGED <<processed, visited, pickle_bars, tipFetches, fpc,
                   worldVars, publishVars, enumVars, serverVars>>

\* response.text().unwrap() on a body that cannot be read (line 316).
TipsBodyError ==
    /\ fpc = "fetch"
    /\ tipResponse' = "body_error"
    /\ fpc' = "panicked"
    /\ UNCHANGED <<processed, visited, pickle_bars, tipFetches, slept,
                   worldVars, publishVars, enumVars, serverVars>>

\* serde_json::from_str(&body).unwrap() on a body that does not parse (line 325).
TipsUnparsable ==
    /\ fpc = "fetch"
    /\ tipResponse' = "unparsable"
    /\ fpc' = "panicked"
    /\ UNCHANGED <<processed, visited, pickle_bars, tipFetches, slept,
                   worldVars, publishVars, enumVars, serverVars>>

\* Faulty variant: the Bar is pushed whatever tips holds.
TipsOkPushesAlways ==
    /\ fpc = "fetch"
    /\ tipResponse' = "ok"
    /\ LET bar == CurrentBar
           tips == CollectTips(tipsOf[bar.id], 1, <<>>)
       IN  pickle_bars' =
               Append(pickle_bars,
                      Bar(bar.id, bar.name, bar.location.lat, bar.location.lng, tips))
    /\ fpc' = "loop"
    /\ UNCHANGED <<processed, visited, tipFetches, slept, worldVars, publishVars, enumVars, serverVars>>

\* A success: the matching tips are collected and, if there are any, the Bar
\* is pushed.
TipsOk ==
    /\ fpc = "fetch"
    /\ tipResponse' = "ok"
    /\ LET bar == CurrentBar
           tips == CollectTips(tipsOf[bar.id], 1, <<>>)
       IN  pickle_bars' =
               IF Len(tips) > 0
               THEN Append(pickle_bars,
                           Bar(bar.id, bar.name, bar.location.lat, bar.location.lng, tips))
               ELSE pickle_bars
    /\ fpc' = "loop"
    /\ UNCHANGED <<processed, visited, tipFetches, slept, worldVars, publishVars, enumVars, serverVars>>

\* The for loop is over: pickle_bars is returned.
FilterReturn ==
    /\ fpc = "loop"
    /\ processed = Len(bars)
    /\ fpc' = "returned"
    /\ UNCHANGED <<processed, visited, pickle_bars, tipResponse, tipFetches, slept,
                   worldVars, publishVars, enumVars, serverVars>>

\* SpecFilter starts where get_bars has returned some venue list.
InitFilter ==
    /\ venues = <<>>
    /\ svc = [kind |-> "honest", minArea |-> 0]
    /\ tipsOf \in TipWorlds
    /\ unexplored = <<>>
    /\ next = NoBox
    /\ bars \in FilterInputs
    /\ response = None
    /\ fetches = 0
    /\ gpc = "returned"
    /\ processed = 0
    /\ visited = {}
    /\ pickle_bars = <<>>
    /\ tipResponse = None
    /\ tipFetches = <<>>
    /\ slept = 0
    /\ fpc = "loop"
    /\ ServerIdle
    /\ PublishIdle

NextFilter ==
    \/ FilterProgressPanics
    \/ FilterSkipVisited
    \/ FilterSkipRegion
    \/ FilterBeginFetch
    \/ TipsTransportError
    \/ TipsNonSuccess
    \/ TipsBodyError
    \/ TipsUnparsable
    \/ TipsOk
    \/ FilterReturn

SpecFilter == InitFilter /\ [][NextFilter]_vars


(***************************************************************************)
(* The server: the dataset file, BarListing and locate_pickleback.         *)
(* Latitude and longitude of the server's bars are whole miles on a flat   *)
(* grid (the haversine distance at small scale).                           *)
(***************************************************************************)
MAXIMUM_DITANCE_MILES == 3

\* A JSON object with the five fields of Bar.
BarObject(id, name, lat, lng, tips) ==
    [id |-> id, name |-> name, lat |-> lat, lng |-> lng, tips |-> tips]

BarFields == {"id", "name", "lat", "lng", "tips"}

ObjAlpha == BarObject("a", "Alpha", 0, 0, <<"tipA1">>)
ObjBeta  == BarObject("b", "Beta", 0, 5, <<"tipB1", "tipB2">>)
ObjGamma == BarObject("c", "Gamma", 0, 6, <<"tipC1">>)
\* A Bar whose tips array is empty.
ObjBare  == BarObject("e", "Bare", 0, 1, <<>>)
\* An object with a field Bar does not have, and one without tips.
ObjExtra == [id |-> "a", name |-> "Alpha", lat |-> 0, lng |-> 0,
             tips |-> <<"tipA1">>, url |-> "http://alpha"]
ObjNoTips == [id |-> "b", name |-> "Beta", lat |-> 0, lng |-> 5]

JsonArray(items) == [kind |-> "array", items |-> items]

\* What static/data/current.json can hold: nothing (the path does not
\* resolve), bytes that are no JSON array, or a JSON array of objects.
FileMissing == [kind |-> "missing"]

FileGarbage == [kind |-> "garbage"]

FileStates ==
    { FileMissing, FileGarbage,
      JsonArray(<<ObjExtra, ObjBeta>>),
      JsonArray(<<ObjBeta, ObjGamma, ObjAlpha>>),
      JsonArray(<<>>),
      JsonArray(<<ObjBare, ObjAlpha>>),
      JsonArray(<<ObjAlpha, ObjNoTips>>) }

\* serde_json::from_reader::<Vec<Bar>>: the document must be an array whose
\* objects have every field of Bar; fields Bar does not have are ignored.
from_reader(doc) ==
    IF doc.kind = "array" /\ \A k \in 1..Len(doc.items) : BarFields \subseteq DOMAIN doc.items[k]
    THEN [ok |-> TRUE,
          bars |-> [k \in 1..Len(doc.items) |->
                      [f \in BarFields |-> doc.items[k][f]]]]
    ELSE [ok |-> FALSE, bars |-> <<>>]

QueryPoints ==
    { [lat |-> 0, lng |-> 2], [lat |-> 0, lng |-> 3],
      [lat |-> 2, lng |-> 2], [lat |-> 0, lng |-> 10] }

\* The least k with k * k >= n.
CeilSqrt(n) == CHOOSE k \in 0..n : k * k >= n /\ (k = 0 \/ (k - 1) * (k - 1) < n)

\* distance_latlong in whole miles, rounded up.
distance_latlong(lat1, lng1, lat2, lng2) ==
    CeilSqrt((lat2 - lat1) * (lat2 - lat1) + (lng2 - lng1) * (lng2 - lng1))

\* 5000.0 / (distance_miles^4 * 40.0 + 0.96), rounded down to a whole unit.
utility_from_distance(distance_miles) ==
    (5000 * 100) \div
        (distance_miles * distance_miles * distance_miles * distance_miles * 40 * 100 + 96)

\* Faulty variant: bars exactly at the maximum distance are skipped as well.
TooFarInclusive(distance) == distance >= MAXIMUM_DITANCE_MILES

\* if distance > MAXIMUM_DITANCE_MILES { continue; }
TooFar(distance) == distance > MAXIMUM_DITANCE_MILES

\* Pass 1: the sum of the utilities of the bars in range.
RECURSIVE TotalUtility(_, _, _, _)
TotalUtility(bs, k, lat, lng) ==
    IF k > Len(bs) THEN 0
    ELSE LET distance == distance_latlong(lat, lng, bs[k].lat, bs[k].lng)
         IN  IF TooFar(distance)
             THEN TotalUtility(bs, k + 1, lat, lng)
             ELSE utility_from_distance(distance) + TotalUtility(bs, k + 1, lat, lng)

\* Faulty variant: the sweep stops at the first bar whose cumulative utility reaches
\* the draw.
ExceedsInclusive(sweep_utility, bar_utility, draw) == sweep_utility + bar_utility >= draw

\* if sweep_utility + bar_utility > choice
Exceeds(sweep_utility, bar_utility, draw) == sweep_utility + bar_utility > draw

\* Pass 2: the index of the bar the sweep returns, 0 when the loop ends
\* without returning (the unreachable!() after it).
RECURSIVE Sweep(_, _, _, _, _, _)
Sweep(bs, k, sweep_utility, draw, lat, lng) ==
    IF k > Len(bs) THEN 0
    ELSE LET distance == distance_latlong(lat, lng, bs[k].lat, bs[k].lng)
             bar_utility == utility_from_distance(distance)
         IN  IF TooFar(distance)
             THEN Sweep(bs, k + 1, sweep_utility, draw, lat, lng)
             ELSE IF Exceeds(sweep_utility, bar_utility, draw)
                  THEN k
                  ELSE Sweep(bs, k + 1, sweep_utility + bar_utility, draw, lat, lng)

\* The /locate handler: the tuple's values, or three empty strings.
LocateQueryResult(res) ==
    IF res = NoneOpt
    THEN [id |-> "", name |-> "", comment |-> ""]
    ELSE [id |-> res[1][1], name |-> res[1][2], comment |-> res[1][3]]

\* Faulty variant: the write guard is handed out while a read guard is held.
WriteLockFreeIgnoringReaders == ~writer

\* self.bars.write(): granted when no guard is held.
WriteLockFree == ~writer /\ readers = 0

\* self.bars.read(): granted when no write guard is held.
ReadLockFree == ~writer

\* ---- reload_bars, run by the timer thread once per tick ---------------
ReloadTick ==
    /\ rpc = "idle"
    /\ rpc' = "started"
    /\ rlog' = "reloading"
    /\ UNCHANGED <<file, listing, readers, writer, fh, parsed, lastGood,
                   lpc, query, total_utility, choice, result, reply,
                   worldVars, publishVars, enumVars, filterVars>>

\* Faulty variant: a failed open ends the timer thread.
ReloadOpenFailsStopsTimer ==
    /\ rpc = "started"
    /\ file.kind = "missing"
    /\ rlog' = "open_error"
    /\ rpc' = "stopped"
    /\ UNCHANGED <<file, listing, readers, writer, fh, parsed, lastGood,
                   lpc, query, total_utility, choice, result, reply,
                   worldVars, publishVars, enumVars, filterVars>>

\* File::open fails.
ReloadOpenFails ==
    /\ rpc = "started"
    /\ file.kind = "missing"
    /\ rlog' = "open_error"
    /\ rpc' = "idle"
    /\ UNCHANGED <<file, listing, readers, writer, fh, parsed, lastGood,
                   lpc, query, total_utility, choice, result, reply,
                   worldVars, publishVars, enumVars, filterVars>>

\* Faulty variant: the write guard is taken before the file is opened.
ReloadOpenUnderLock ==
    /\ rpc = "started"
    /\ file.kind # "missing"
    /\ WriteLockFree
    /\ writer' = TRUE
    /\ fh' = file
    /\ rpc' = "opened"
    /\ UNCHANGED <<file, listing, readers, rlog, parsed, lastGood,
                   lpc, query, total_utility, choice, result, reply,
                   worldVars, publishVars, enumVars, filterVars>>

\* File::open succeeds: the handle keeps the file it resolved to.
ReloadOpen ==
    /\ rpc = "started"
    /\ file.kind # "missing"
    /\ fh' = file
    /\ rpc' = "opened"
    /\ UNCHANGED <<file, listing, readers, writer, rlog, parsed, lastGood,
                   lpc, query, total_utility, choice, result, reply,
                   worldVars, publishVars, enumVars, filterVars>>

\* Faulty variant: a parse failure stores an empty listing.
ParseFailedClears == listing' = <<>>

\* Err(err) => error!(..): nothing is changed.
ParseFailed == listing' = listing

ReloadParseFails ==
    /\ rpc = "opened"
    /\ ~from_reader(fh).ok
    /\ rlog' = "parse_error"
    /\ rpc' = "idle"
    /\ fh' = FileMissing
    /\ ParseFailed
    /\ UNCHANGED <<file, readers, writer, parsed, lastGood,
                   lpc, query, total_utility, choice, result, reply,
                   worldVars, publishVars, enumVars, filterVars>>

ReloadParseOk ==
    /\ rpc = "opened"
    /\ from_reader(fh).ok
    /\ parsed' = from_reader(fh).bars
    /\ lastGood' = from_reader(fh).bars
    /\ fh' = FileMissing
    /\ rpc' = "parsed"
    /\ UNCHANGED <<file, listing, readers, writer, rlog,
                   lpc, query, total_utility, choice, result, reply,
                   worldVars, publishVars, enumVars, filterVars>>

\* let mut listing = self.bars.write().unwrap();
ReloadWriteLock ==
    /\ rpc = "parsed"
    /\ WriteLockFree
    /\ writer' = TRUE
    /\ rpc' = "locked"
    /\ UNCHANGED <<file, listing, readers, rlog, fh, parsed, lastGood,
                   lpc, query, total_utility, choice, result, reply,
                   worldVars, publishVars, enumVars, filterVars>>

\* *listing = bars; (bars is moved into the listing) and the guard is
\* dropped at the end of the arm.
ReloadAssign ==
    /\ rpc = "locked"
    /\ listing' = parsed
    /\ parsed' = <<>>
    /\ writer' = FALSE
    /\ rlog' = "ok"
    /\ rpc' = "idle"
    /\ UNCHANGED <<file, readers, fh, lastGood,
                   lpc, query, total_utility, choice, result, reply,
                   worldVars, publishVars, enumVars, filterVars>>

\* ---- the file is replaced, removed or damaged from outside ------------
FileChange ==
    /\ \E f \in FileStates : f # file /\ file' = f
    /\ UNCHANGED <<listing, readers, writer, rpc, rlog, fh, parsed, lastGood,
                   lpc, query, total_utility, choice, result, reply,
                   worldVars, publishVars, enumVars, filterVars>>

\* ---- one /locate request at a time ------------------------------------
\* A request arrives (after the previous one was answered or had panicked).
LocateRequest ==
    /\ lpc \in {"idle", "returned", "panicked", "unreachable"}
    /\ \E q \in QueryPoints : query' = q
    /\ lpc' = "start"
    /\ result' = NoneOpt
    /\ reply' = LocateQueryResult(NoneOpt)
    /\ UNCHANGED <<file, listing, readers, writer, rpc, rlog, fh, parsed, lastGood,
                   total_utility, choice, worldVars, publishVars, enumVars, filterVars>>

\* let bars = self.bars.read().unwrap();
LocateReadLock ==
    /\ lpc = "start"
    /\ ReadLockFree
    /\ readers' = readers + 1
    /\ lpc' = "locked"
    /\ UNCHANGED <<file, listing, writer, rpc, rlog, fh, parsed, lastGood,
                   query, total_utility, choice, result, reply,
                   worldVars, publishVars, enumVars, filterVars>>

\* Pass 1 finds no utility: None is returned and the guard dropped.
LocatePass1None ==
    /\ lpc = "locked"
    /\ TotalUtility(listing, 1, query.lat, query.lng) = 0
    /\ total_utility' = 0
    /\ result' = NoneOpt
    /\ reply' = LocateQueryResult(NoneOpt)
    /\ readers' = readers - 1
    /\ lpc' = "returned"
    /\ UNCHANGED <<file, listing, writer, rpc, rlog, fh, parsed, lastGood,
                   query, choice, worldVars, publishVars, enumVars, filterVars>>

\* Pass 1 and rng.gen_range(0.0, total_utility).
LocatePass1Draw ==
    /\ lpc = "locked"
    /\ TotalUtility(listing, 1, query.lat, query.lng) # 0
    /\ total_utility' = TotalUtility(listing, 1, query.lat, query.lng)
    /\ \E r \in 0..(TotalUtility(listing, 1, query.lat, query.lng) - 1) : choice' = r
    /\ lpc' = "drawn"
    /\ UNCHANGED <<file, listing, readers, writer, rpc, rlog, fh, parsed, lastGood,
                   query, result, reply, worldVars, publishVars, enumVars, filterVars>>

\* Faulty variant: pass 2 returns the first bar of the listing.
LocatePass2ReturnsFirstBar ==
    /\ lpc = "drawn"
    /\ listing[1].tips # <<>>
    /\ \E t \in 1..Len(listing[1].tips) :
          /\ result' = Some(<<listing[1].id, listing[1].name, listing[1].tips[t]>>)
          /\ reply' = LocateQueryResult(
                         Some(<<listing[1].id, listing[1].name, listing[1].tips[t]>>))
    /\ readers' = readers - 1
    /\ total_utility' = 0
    /\ choice' = 0
    /\ lpc' = "returned"
    /\ UNCHANGED <<file, listing, writer, rpc, rlog, fh, parsed, lastGood,
                   query, worldVars, publishVars, enumVars, filterVars>>

\* Pass 2 returns a bar and one of its tips.
LocatePass2Return ==
    /\ lpc = "drawn"
    /\ LET k == Sweep(listing, 1, 0, choice, query.lat, query.lng)
       IN  /\ k # 0
           /\ listing[k].tips # <<>>
           /\ \E t \in 1..Len(listing[k].tips) :
                 /\ result' = Some(<<listing[k].id, listing[k].name, listing[k].tips[t]>>)
                 /\ reply' = LocateQueryResult(
                                Some(<<listing[k].id, listing[k].name, listing[k].tips[t]>>))
    /\ readers' = readers - 1
    /\ total_utility' = 0
    /\ choice' = 0
    /\ lpc' = "returned"
    /\ UNCHANGED <<file, listing, writer, rpc, rlog, fh, parsed, lastGood,
                   query, worldVars, publishVars, enumVars, filterVars>>

\* Pass 2 panics: bar.tips.choose(&mut rng).unwrap() on an empty tips list,
\* or the loop ends without returning and reaches unreachable!().  The guard
\* is dropped while the panic unwinds.
LocatePass2Panics ==
    /\ lpc = "drawn"
    /\ LET k == Sweep(listing, 1, 0, choice, query.lat, query.lng)
       IN  IF k = 0
           THEN lpc' = "unreachable"
           ELSE listing[k].tips = <<>> /\ lpc' = "panicked"
    /\ readers' = readers - 1
    /\ total_utility' = 0
    /\ choice' = 0
    /\ UNCHANGED <<file, listing, writer, rpc, rlog, fh, parsed, lastGood,
                   query, result, reply, worldVars, publishVars, enumVars, filterVars>>

\* BarListing::new() has loaded a file that parses.
InitServer ==
    /\ WorldIdle
    /\ EnumIdle
    /\ FilterIdle
    /\ PublishIdle
    /\ file \in { f \in FileStates : f.kind # "missing" /\ from_reader(f).ok }
    /\ listing = from_reader(file).bars
    /\ lastGood = from_reader(file).bars
    /\ readers = 0
    /\ writer = FALSE
    /\ rpc = "idle"
    /\ rlog = None
    /\ fh = FileMissing
    /\ parsed = <<>>
    /\ lpc = "idle"
    /\ query = [lat |-> 0, lng |-> 0]
    /\ total_utility = 0
    /\ choice = 0
    /\ result = NoneOpt
    /\ reply = LocateQueryResult(NoneOpt)

NextServer ==
    \/ ReloadTick
    \/ ReloadOpenFails
    \/ ReloadOpen
    \/ ReloadParseFails
    \/ ReloadParseOk
    \/ ReloadWriteLock
    \/ ReloadAssign
    \/ FileChange
    \/ LocateRequest
    \/ LocateReadLock
    \/ LocatePass1None
    \/ LocatePass1Draw
    \/ LocatePass2Return
    \/ LocatePass2Panics

SpecServer == InitServer /\ [][NextServer]_vars

\* The steps of the timer thread that wait for nothing.
ReloadRuns ==
    \/ ReloadTick
    \/ ReloadOpenFails
    \/ ReloadOpen
    \/ ReloadParseFails
    \/ ReloadParseOk
    \/ ReloadAssign

\* The steps of a locate call that has started.
LocateRuns ==
    \/ LocateReadLock
    \/ LocatePass1None
    \/ LocatePass1Draw
    \/ LocatePass2Return
    \/ LocatePass2Panics

\* The server with its scheduling: the timer keeps ticking and the timer
\* thread keeps running reload_bars; a locate call that has started runs to
\* its end; write() is granted to a caller that finds the lock free again and
\* again.  Requests and changes of the file may stop at any time.
SpecServerLive ==
    /\ InitServer
    /\ [][NextServer]_vars
    /\ WF_vars(ReloadRuns)
    /\ SF_vars(ReloadWriteLock)
    /\ WF_vars(LocateRuns)

(***************************************************************************)
(* main of the scrape binary: one run creates today's dated file, scrapes, *)
(* writes the result and symlinks current.json to the dated file.  The     *)
(* binary is run again and again, on the same day or on a later one.       *)
(***************************************************************************)
\* What scrape_pickleback_bars can hand to main.
PublishDatasets ==
    { <<>>,
      <<Bar("v1", "v1", 40, -74, <<TextPickleback>>)>>,
      <<Bar("v1", "v1", 40, -74, <<TextPickleback>>),
        Bar("v5", "v5", 39, -73, <<TextTwoPhrases>>)>> }

\* The dated file the link at current.json leads to, if there is a link.
Referent == IF current = NoneOpt THEN NoneOpt
            ELSE Some(Resolve(SymlinkPath, current[1]))

\* A path names an existing regular file: only dated files exist.
IsFile(path) ==
    \E d \in 1..MaxDays : path = DatePath(d) /\ files[d].state # "absent"

\* The binary is started: Utc::today() is read, then the two environment
\* variables are unwrapped (lines 352-355).
MainStart ==
    /\ mpc \in {"idle", "done", "panicked"}
    /\ runs < MaxRuns
    /\ runs' = runs + 1
    /\ \E d \in today..MaxDays : today' = d
    /\ \E env \in BOOLEAN : mpc' = IF env THEN "started" ELSE "panicked"
    /\ UNCHANGED <<files, current, worldVars, enumVars, filterVars, serverVars>>

\* File::create(&date_path).unwrap(): the dated file is created, or
\* truncated when a run of the same day made it already (line 360).
MainCreate ==
    /\ mpc = "started"
    /\ files' = [files EXCEPT ![today] = [state |-> "truncated", data |-> <<>>]]
    /\ mpc' = "created"
    /\ UNCHANGED <<today, current, runs, worldVars, enumVars, filterVars, serverVars>>

\* scrape_pickleback_bars panics (a failed fetch, an unparsable body, ...):
\* the run ends with the dated file created and empty.
MainScrapePanics ==
    /\ mpc = "created"
    /\ mpc' = "panicked"
    /\ UNCHANGED <<today, files, current, runs, worldVars, enumVars, filterVars, serverVars>>

\* scrape_pickleback_bars returns and its result is serialised into the
\* dated file, which is then closed (lines 361-363).
MainWrite ==
    /\ mpc = "created"
    /\ \E ds \in PublishDatasets :
          files' = [files EXCEPT ![today] = [state |-> "written", data |-> ds]]
    /\ mpc' = "written"
    /\ UNCHANGED <<today, current, runs, worldVars, enumVars, filterVars, serverVars>>

\* symlink(date_path, symlink_path).unwrap(): the link is made with
\* date_path as its target when nothing is at symlink_path; when something
\* is there, symlink fails (EEXIST) and the unwrap panics (line 365).
MainSymlink ==
    /\ mpc = "written"
    /\ IF current = NoneOpt
       THEN /\ current' = Some(DatePath(today))
            /\ mpc' = "done"
       ELSE /\ current' = current
            /\ mpc' = "panicked"
    /\ UNCHANGED <<today, files, runs, worldVars, enumVars, filterVars, serverVars>>

InitPublish ==
    /\ WorldIdle
    /\ EnumIdle
    /\ FilterIdle
    /\ ServerIdle
    /\ today \in 1..MaxDays
    /\ files = [d \in 1..MaxDays |-> AbsentFile]
    /\ current = NoneOpt
    /\ runs = 0
    /\ mpc = "idle"

NextPublish ==
    \/ MainStart
    \/ MainCreate
    \/ MainScrapePanics
    \/ MainWrite
    \/ MainSymlink

SpecPublish == InitPublish /\ [][NextPublish]_vars

(***************************************************************************)
(* Deduplication by id as scrape_pickleback_bars does it: a venue is kept  *)
(* when its id is not yet in visited, and its id is then inserted.         *)
(***************************************************************************)
RECURSIVE DedupFrom(_, _, _)
DedupFrom(seq, k, seen) ==
    IF k > Len(seq) THEN <<>>
    ELSE IF seq[k].id \in seen
         THEN DedupFrom(seq, k + 1, seen)
         ELSE <<seq[k]>> \o DedupFrom(seq, k + 1, seen \cup {seq[k].id})

DedupById(seq) == DedupFrom(seq, 1, {})

Occurrences(seq, id) == Cardinality({ j \in 1..Len(seq) : seq[j].id = id })

InTargetRegion(v) == InBox(v.location.lat, v.location.lng, TargetRegion)

(***************************************************************************)
(* Claims about the enumeration.                                           *)
(***************************************************************************)

\* C1: against a search that returns every venue of the queried box when
\* there are fewer than the cap and exactly the cap otherwise, a get_bars
\* that returns has every venue of the target region in its output.
C1_EnumerationComplete ==
    (gpc = "returned" /\ svc.kind \in {"honest", "faulty"}) =>
        \A k \in 1..Len(venues) :
            InTargetRegion(venues[k]) => Occurrences(bars, venues[k].id) >= 1

\* C1 witness: get_bars returned after at least one subdivision, with venues
\* in the target region, one of them on the region's far corner.
C1_Witness ==
    /\ gpc = "returned"
    /\ svc.kind = "honest"
    /\ fetches > GridCols * GridRows
    /\ Len(venues) >= FOURSQUARE_MAX_VENUES_PER_QUERY
    /\ \A k \in 1..Len(venues) : InTargetRegion(venues[k])
    /\ \E k \in 1..Len(venues) :
          /\ venues[k].location.lat = TargetRegion.sw.latitude
          /\ venues[k].location.lng = TargetRegion.ne.longitude

\* C8: a venue search that fails (transport, status, body or parse) ends the
\* run at once: get_bars is panicked, and from then on nothing is fetched,
\* no cell is put back and no venue list is returned.
C8_FetchFailureAborts ==
    /\ [](response \in FetchFailures => gpc = "panicked")
    /\ [][gpc = "panicked" =>
            /\ gpc' = "panicked"
            /\ fetches' = fetches
            /\ unexplored' = unexplored
            /\ bars' = bars]_vars

\* C8 witness: a run aborted by a failed fetch after earlier cells succeeded,
\* with cells still unexplored.
C8_Witness ==
    /\ gpc = "panicked"
    /\ response \in FetchFailures
    /\ fetches > 1
    /\ unexplored # <<>>
    /\ bars # <<>>

\* C9: against the synthetic service (exactly the cap above a minimum area,
\* the venues of the box below it) get_bars returns, and its output
\* deduplicated by id holds every venue of the target region exactly once
\* and no id twice.
C9_SyntheticTerminates ==
    /\ (svc.kind = "synthetic") => <>(gpc = "returned")
    /\ []((gpc = "returned" /\ svc.kind = "synthetic") =>
            /\ \A k \in 1..Len(venues) :
                  InTargetRegion(venues[k]) =>
                      Occurrences(DedupById(bars), venues[k].id) = 1
            /\ \A j \in 1..Len(bars) :
                  Occurrences(DedupById(bars), bars[j].id) = 1)

\* C9 witness: the synthetic run returned, and a venue came back from more
\* than one cell, so that deduplication had something to remove.
C9_Witness ==
    /\ gpc = "returned"
    /\ svc.kind = "synthetic"
    /\ Len(venues) = MaxVenues
    /\ Len(DedupById(bars)) < Len(bars)
    /\ \A k \in 1..Len(venues) : Occurrences(bars, venues[k].id) >= 1

(***************************************************************************)
(* Claims about split_to_quadrants.                                        *)
(***************************************************************************)
GridPoints(box) ==
    (box.sw.latitude..box.ne.latitude) \X (box.sw.longitude..box.ne.longitude)

\* C10: the four quadrants of a box with sw <= ne tile it: every point of
\* the box is in a quadrant, every quadrant is inside the box, and a point
\* two quadrants share is on the midpoint latitude or longitude line.
C10_QuadrantsTile ==
    gpc = "quad_done" =>
        LET mid_lat == (next.sw.latitude + next.ne.latitude) \div 2
            mid_lon == (next.sw.longitude + next.ne.longitude) \div 2
        IN  /\ Len(unexplored) = 4
            /\ \A p \in GridPoints(next) :
                  \E k \in 1..4 : InBox(p[1], p[2], unexplored[k])
            /\ \A k \in 1..4 :
                  /\ unexplored[k].sw.latitude <= unexplored[k].ne.latitude
                  /\ unexplored[k].sw.longitude <= unexplored[k].ne.longitude
                  /\ InBox(unexplored[k].sw.latitude, unexplored[k].sw.longitude, next)
                  /\ InBox(unexplored[k].ne.latitude, unexplored[k].ne.longitude, next)
            /\ \A i \in 1..4 : \A j \in 1..4 :
                  i # j =>
                      \A p \in GridPoints(unexplored[i]) \cap GridPoints(unexplored[j]) :
                          p[1] = mid_lat \/ p[2] = mid_lon

\* C10 witness: a box of odd width and even height, around the origin, split.
C10_Witness ==
    /\ gpc = "quad_done"
    /\ next.ne.latitude - next.sw.latitude = 3
    /\ next.ne.longitude - next.sw.longitude = 2
    /\ next.sw.latitude < 0
    /\ Cardinality({unexplored[k] : k \in 1..4}) = 4


(***************************************************************************)
(* Claims about the filter.                                                *)
(***************************************************************************)

\* C4: the review fetch never gives up: after a transport failure or a
\* response that is not a success the run is still fetching that venue (it
\* has neither aborted nor moved on).
C4_TipsFetchNeverGivesUp ==
    tipResponse \in {"transport_error", "non_success"} => fpc = "fetch"

\* C4 witness: the tips request of the second venue fetched met a transport
\* failure after one venue had been kept, and the run is aborted.
C4_Witness ==
    /\ tipResponse = "transport_error"
    /\ fpc = "panicked"
    /\ Len(tipFetches) = 2
    /\ Len(pickle_bars) = 1
    /\ processed < Len(bars)

(***************************************************************************)
(* Claims about the server.                                                *)
(***************************************************************************)
Distance(q, bar) == distance_latlong(q.lat, q.lng, bar.lat, bar.lng)

WithinReach(q, bar) == Distance(q, bar) <= MAXIMUM_DITANCE_MILES

UtilityOf(q, bar) == utility_from_distance(Distance(q, bar))

\* u_1 + ... + u_k over the bars of bs within reach of q, in bs' order.
RECURSIVE Cumulative(_, _, _)
Cumulative(bs, q, k) ==
    IF k = 0 THEN 0
    ELSE Cumulative(bs, q, k - 1)
         + (IF WithinReach(q, bs[k]) THEN UtilityOf(q, bs[k]) ELSE 0)

\* C2: a reload that fails to open or to parse its file leaves the listing
\* as it was, and whenever no reload has a parsed listing in hand the
\* listing is the one of the latest successful parse (the startup load if
\* there was none).
C2_FailedReloadKeepsSnapshot ==
    /\ [](rpc \in {"idle", "started", "opened"} => listing = lastGood)
    /\ [][(rpc # "idle" /\ rpc' = "idle" /\ rlog' \in {"open_error", "parse_error"})
            => listing' = listing]_vars

\* C2 witness: the file is garbage, the reload of it has failed, and a locate
\* call has since been answered from the three bars loaded before.
C2_Witness ==
    /\ rpc = "idle"
    /\ rlog = "parse_error"
    /\ file = FileGarbage
    /\ Len(listing) = 3
    /\ lpc = "returned"
    /\ result # NoneOpt

\* C3: while a locate call holds its read guard the listing is not replaced,
\* so both passes read one snapshot and the unreachable!() after the second
\* loop is never reached.
C3_LocateSeesOneSnapshot ==
    /\ [](lpc # "unreachable")
    /\ [][(lpc \in {"locked", "drawn"}) => listing' = listing]_vars

\* C3 witness: a locate call is between its two passes while reload_bars has
\* parsed a different listing and waits to store it.
C3_Witness ==
    /\ lpc = "drawn"
    /\ rpc = "parsed"
    /\ parsed # listing
    /\ Len(parsed) < Len(listing)

\* C5: the lookup never aborts: whatever listing was loaded and whatever the
\* query, locate_pickleback does not panic.
C5_LocateNeverAborts == lpc \notin {"panicked", "unreachable"}

\* C5 witness: a listing that was loaded holds a bar without tips within
\* reach of the query, and the locate call has panicked.
C5_Witness ==
    /\ lpc = "panicked"
    /\ \E k \in 1..Len(listing) :
          /\ listing[k].tips = <<>>
          /\ WithinReach(query, listing[k])

\* C6: locate_pickleback returns None exactly when no bar of the listing is
\* within the maximum distance of the query; the handler then answers three
\* empty strings, and otherwise the id, the name and a tip of one bar.
C6_NoneIffNothingInRange ==
    [][(lpc \in {"locked", "drawn"} /\ lpc' = "returned") =>
         /\ (result' = NoneOpt) <=>
                (\A k \in 1..Len(listing) : ~WithinReach(query, listing[k]))
         /\ IF result' = NoneOpt
            THEN reply' = [id |-> "", name |-> "", comment |-> ""]
            ELSE \E k \in 1..Len(listing) :
                    /\ reply'.id = listing[k].id
                    /\ reply'.name = listing[k].name
                    /\ \E t \in 1..Len(listing[k].tips) :
                          reply'.comment = listing[k].tips[t]]_vars

\* C6 witness: None was returned, and answered with empty strings, from a
\* listing that has bars, all of them out of reach.
C6_Witness ==
    /\ lpc = "returned"
    /\ result = NoneOpt
    /\ reply.id = "" /\ reply.name = "" /\ reply.comment = ""
    /\ Len(listing) = 2
    /\ readers = 0

\* C7: the bar returned for draw r is the first bar i, in listing order, whose
\* cumulative utility u_1 + ... + u_i exceeds r; and of the draws 0..total-1
\* exactly u_i select bar i.
C7_ProportionalSelection ==
    /\ [][(lpc = "drawn" /\ lpc' = "returned") =>
            \E k \in 1..Len(listing) :
                /\ result' = Some(<<listing[k].id, listing[k].name, reply'.comment>>)
                /\ WithinReach(query, listing[k])
                /\ Cumulative(listing, query, k) > choice
                /\ Cumulative(listing, query, k - 1) <= choice]_vars
    /\ []((lpc = "drawn" /\ choice = 0) =>
            /\ total_utility = Cumulative(listing, query, Len(listing))
            /\ \A k \in 1..Len(listing) :
                  WithinReach(query, listing[k]) =>
                      Cardinality({ r \in 0..(total_utility - 1) :
                                      Sweep(listing, 1, 0, r, query.lat, query.lng) = k })
                          = UtilityOf(query, listing[k]))

\* C7 witness: of three bars within reach, with utilities 7, 1 and 1, the
\* second was returned.
C7_Witness ==
    /\ lpc = "returned"
    /\ Len(listing) = 3
    /\ \A k \in 1..3 : WithinReach(query, listing[k])
    /\ UtilityOf(query, listing[1]) > UtilityOf(query, listing[2])
    /\ result = Some(<<listing[2].id, listing[2].name, listing[2].tips[1]>>)

(***************************************************************************)
(* Claims about the filter's output.                                       *)
(***************************************************************************)
\* The position of the first venue of seq with the given id.
FirstIndex(seq, id) == CHOOSE i \in 1..Len(seq) :
                          /\ seq[i].id = id
                          /\ \A j \in 1..(i - 1) : seq[j].id # id

\* C11: the Bars pushed have pairwise distinct ids, the tips of an id are
\* fetched at most once, and the Bars are in the order in which their ids
\* first occur in get_bars' output.
C11_DedupKeepsFirst ==
    /\ \A i \in 1..Len(pickle_bars) : \A j \in 1..Len(pickle_bars) :
          i < j => /\ pickle_bars[i].id # pickle_bars[j].id
                   /\ FirstIndex(bars, pickle_bars[i].id)
                          < FirstIndex(bars, pickle_bars[j].id)
    /\ \A i \in 1..Len(tipFetches) : \A j \in 1..Len(tipFetches) :
          i # j => tipFetches[i] # tipFetches[j]
    /\ \A i \in 1..Len(tipFetches) :
          /\ tipFetches[i] \in visited
          /\ FirstIndex(bars, tipFetches[i]) <= processed
          /\ ~RegionDropped(bars[FirstIndex(bars, tipFetches[i])])

\* C11 witness: the filter returned two Bars from a list of a hundred venues
\* or more in which ids repeat, after two tips fetches.
C11_Witness ==
    /\ fpc = "returned"
    /\ Len(bars) >= PROGRESS_STEPS
    /\ Len(pickle_bars) = 2
    /\ Len(tipFetches) = 2
    /\ bars[3].id = bars[4].id
    /\ bars[1].id = bars[2].id

\* A review text matches when its lowercase form contains a phrase.
MatchesPhrase(text) ==
    \E n \in 1..Len(TIP_SEARCH_PHRASES) :
        contains(to_lowercase(text), TIP_SEARCH_PHRASES[n])

\* C12: a successful tips response pushes a Bar for the venue exactly when
\* one of its reviews matches a phrase, and the loop goes on either way;
\* every Bar pushed has a tip.
C12_BarIffMatch ==
    /\ [][(fpc = "fetch" /\ tipResponse' = "ok") =>
            /\ fpc' = "loop"
            /\ IF \E i \in 1..Len(tipsOf[CurrentBar.id]) :
                      MatchesPhrase(tipsOf[CurrentBar.id][i])
               THEN /\ Len(pickle_bars') = Len(pickle_bars) + 1
                    /\ SubSeq(pickle_bars', 1, Len(pickle_bars)) = pickle_bars
                    /\ pickle_bars'[Len(pickle_bars')].id = CurrentBar.id
                    /\ pickle_bars'[Len(pickle_bars')].name = CurrentBar.name
                    /\ pickle_bars'[Len(pickle_bars')].lat = CurrentBar.location.lat
                    /\ pickle_bars'[Len(pickle_bars')].lng = CurrentBar.location.lng
               ELSE pickle_bars' = pickle_bars]_vars
    /\ [](\A k \in 1..Len(pickle_bars) : pickle_bars[k].tips # <<>>)

\* C12 witness: the filter returned; of the venues whose tips were fetched
\* one had no matching review and was dropped, the others were pushed.
C12_Witness ==
    /\ fpc = "returned"
    /\ Len(pickle_bars) >= 1
    /\ Len(pickle_bars) < Len(tipFetches)
    /\ \E i \in 1..Len(tipFetches) :
          /\ tipsOf[tipFetches[i]] # <<>>
          /\ \A k \in 1..Len(pickle_bars) : pickle_bars[k].id # tipFetches[i]

\* The matching texts of items, each once, in the order of first match.
RECURSIVE ExpectedTips(_, _)
ExpectedTips(items, k) ==
    IF k = 0 THEN <<>>
    ELSE IF /\ MatchesPhrase(items[k])
            /\ \A j \in 1..(k - 1) : items[j] # items[k]
         THEN Append(ExpectedTips(items, k - 1), items[k])
         ELSE ExpectedTips(items, k - 1)

\* C13: the tips of a Bar are the review texts of its venue that match a
\* phrase whatever their letter case, unmodified, each once, in the order of
\* first match.
C13_TipsAreTheMatches ==
    \A k \in 1..Len(pickle_bars) :
        LET items == tipsOf[pickle_bars[k].id]
        IN  pickle_bars[k].tips = ExpectedTips(items, Len(items))

\* C13 witness: a venue whose reviews are "Pickleback!", a text about beer,
\* "pickleback!" and "Pickleback!" again has the two tips "Pickleback!" and
\* "pickleback!"; a review matching two phrases is one tip.
C13_Witness ==
    /\ fpc = "returned"
    /\ \E k \in 1..Len(pickle_bars) :
          /\ Len(tipsOf[pickle_bars[k].id]) = 4
          /\ pickle_bars[k].tips = <<TextPickleback, TextPicklebackLower>>
    /\ \E k \in 1..Len(pickle_bars) : pickle_bars[k].tips = <<TextTwoPhrases>>

(***************************************************************************)
(* Claims about the files main writes.                                     *)
(***************************************************************************)
\* C14: a run that has written its dataset ends with current.json leading
\* to the dated file it wrote, whether or not current.json existed before.
C14_CurrentRefersToLatest ==
    [][(mpc = "written") =>
          /\ mpc' = "done"
          /\ IF current' = NoneOpt THEN FALSE
             ELSE Resolve(SymlinkPath, current'[1]) = DatePath(today)]_vars

\* C14 witness: the second run, on a later day, wrote its dataset and died
\* in symlink; current.json still has the target the first run gave it.
C14_Witness ==
    /\ mpc = "panicked"
    /\ runs = 2
    /\ today = 2
    /\ files[2].state = "written"
    /\ files[2].data # files[1].data
    /\ current = Some(DatePath(1))
    /\ ~IsFile(Referent[1])

(***************************************************************************)
(* Claims about one step of the enumeration loop.                          *)
(***************************************************************************)
\* The venues a successful search of the box returns.
FetchedVenues(box) == (CHOOSE o \in Outcomes(box) : o.status = "ok").venues

\* The four quarters of a box about its midpoint.
QuartersOf(box) ==
    LET mid == LatLong((box.sw.latitude + box.ne.latitude) \div 2,
                       (box.sw.longitude + box.ne.longitude) \div 2)
    IN  { BoundingBox(box.sw, mid),
          BoundingBox(mid, box.ne),
          BoundingBox(LatLong(mid.latitude, box.sw.longitude),
                      LatLong(box.ne.latitude, mid.longitude)),
          BoundingBox(LatLong(box.sw.latitude, mid.longitude),
                      LatLong(mid.latitude, box.ne.longitude)) }

\* C15: a fetch that returns exactly the cap adds nothing to bars and puts
\* the cell's four quadrants, and nothing else, on the stack in the cell's
\* place; a fetch that returns fewer appends all its venues to bars and pushes
\* nothing.
C15_TruncationStep ==
    [][(fetches' = fetches + 1 /\ response' = "ok") =>
          /\ next' = Top(unexplored)
          /\ IF Len(FetchedVenues(next')) = FOURSQUARE_MAX_VENUES_PER_QUERY
             THEN /\ bars' = bars
                  /\ Len(unexplored') = Len(unexplored) + 3
                  /\ SubSeq(unexplored', 1, Len(unexplored) - 1) = Pop(unexplored)
                  /\ { unexplored'[k] : k \in Len(unexplored)..Len(unexplored') }
                        = QuartersOf(next')
             ELSE /\ bars' = bars \o FetchedVenues(next')
                  /\ unexplored' = Pop(unexplored)]_vars

\* C15 witness: a cell was split, one of its quadrants answered with fewer
\* venues than the cap, and those venues are in bars.
C15_Witness ==
    /\ gpc = "loop"
    /\ response = "ok"
    /\ Len(unexplored) = Len(SeedStack) + 2
    /\ 0 < Len(FetchedVenues(next))
    /\ Len(FetchedVenues(next)) < FOURSQUARE_MAX_VENUES_PER_QUERY
    /\ bars = FetchedVenues(next)

(***************************************************************************)
(* Claims about the locks of BarListing.                                   *)
(***************************************************************************)
\* C16: a locate call holds the read lock only to capture the listing: once
\* its passes are under way it holds no lock, and a reload that has parsed
\* its file can take the write lock without waiting for the call.
C16_LockOnlyForCapture ==
    lpc = "drawn" => /\ readers = 0
                     /\ rpc = "parsed" => WriteLockFree

\* C16 witness: a locate call between its passes holds the read guard while
\* reload_bars, with a new listing parsed, cannot take the write lock.
C16_Witness ==
    /\ lpc = "drawn"
    /\ readers = 1
    /\ rpc = "parsed"
    /\ ~WriteLockFree
    /\ parsed # listing
    /\ total_utility > 0

\* C17: reload_bars holds the write guard only to assign the parsed listing:
\* while it opens and parses it holds no lock, a locate call that asks for
\* the read lock then gets it and reads the listing as it was before the
\* reload, and the read and write guards are never held together.
C17_ReloadLocksOnlyToAssign ==
    /\ [](writer => rpc = "locked")
    /\ [](~(writer /\ readers > 0))
    /\ []((rpc \in {"started", "opened"} /\ lpc = "start") => ENABLED LocateReadLock)
    /\ [][(rpc \in {"started", "opened"}) => listing' = listing]_vars

\* C17 witness: a locate call has been answered with a bar of the old
\* listing while reload_bars has a file open that holds other bars.
C17_Witness ==
    /\ rpc = "opened"
    /\ lpc = "returned"
    /\ result # NoneOpt
    /\ from_reader(fh).ok
    /\ from_reader(fh).bars # listing
    /\ \A k \in 1..Len(from_reader(fh).bars) : from_reader(fh).bars[k].id # result[1][1]

\* The files reload_bars can load.
ValidFiles == { f \in FileStates : f.kind # "missing" /\ from_reader(f).ok }

CrowdedPoints ==
    { s \in { Sites[i] : i \in 1..Len(Sites) } :
        /\ Cardinality({ k \in 1..Len(venues) :
                            /\ venues[k].location.lat = s.latitude
                            /\ venues[k].location.lng = s.longitude })
              >= FOURSQUARE_MAX_VENUES_PER_QUERY
        /\ \E c \in 1..Len(SeedStack) : InBox(s.latitude, s.longitude, SeedStack[c]) }

\* C19: when as many venues as the cap share one coordinate, every cell that
\* holds it answers with exactly the cap however small it is: get_bars never
\* returns and, while it runs, its stack is never empty.
C19_NoSubdivisionBound ==
    (svc.kind \in {"honest", "faulty"} /\ CrowdedPoints # {}) =>
        /\ gpc # "returned"
        /\ gpc = "loop" =>
              \E k \in 1..Len(unexplored) :
                 \E s \in CrowdedPoints :
                    /\ InBox(s.latitude, s.longitude, unexplored[k])
                    /\ Len(HonestFetch(unexplored[k])) = FOURSQUARE_MAX_VENUES_PER_QUERY

\* C19 witness: the cell just fetched cannot shrink any more (it is
\* one of its own quadrants) and still answers with the cap: it was fetched
\* and split, and the very same cell is on the stack again.
C19_Witness ==
    /\ gpc = "loop"
    /\ svc.kind = "honest"
    /\ CrowdedPoints # {}
    /\ response = "ok"
    /\ \E q \in 1..4 : split_to_quadrants(next)[q] = next
    /\ Len(HonestFetch(next)) = FOURSQUARE_MAX_VENUES_PER_QUERY
    /\ \E k \in 1..Len(unexplored) : unexplored[k] = next
    /\ fetches > MaxDepth

(***************************************************************************)
(* Claims about what locate_pickleback returns.                            *)
(***************************************************************************)
\* The positions of the listing's bars within the maximum distance of q.
InRange(q) == { k \in 1..Len(listing) : WithinReach(q, listing[k]) }

\* C20: a returned (id, name, comment) is the id and name of a bar of the
\* listing within the maximum distance of the query and one of that bar's
\* tips; and when exactly one bar is within that distance, the call returns
\* that bar whatever the draw.
C20_ReturnsABarInRange ==
    /\ [][(lpc \in {"locked", "drawn"} /\ lpc' = "returned" /\ result' # NoneOpt) =>
            \E k \in InRange(query) :
                /\ result'[1][1] = listing[k].id
                /\ result'[1][2] = listing[k].name
                /\ \E t \in 1..Len(listing[k].tips) : result'[1][3] = listing[k].tips[t]]_vars
    /\ [][(lpc \in {"locked", "drawn"} /\ lpc' = "returned"
              /\ Cardinality(InRange(query)) = 1) =>
            \A k \in InRange(query) :
                /\ result' # NoneOpt
                /\ result'[1][1] = listing[k].id
                /\ result'[1][2] = listing[k].name]_vars
    /\ []((lpc = "drawn" /\ Cardinality(InRange(query)) = 1) =>
            \A r \in 0..(total_utility - 1) :
                Sweep(listing, 1, 0, r, query.lat, query.lng) \in InRange(query))

\* C20 witness: the only bar within reach, the last of three and exactly at
\* the maximum distance, was returned; the bars before it are farther.
C20_Witness ==
    /\ lpc = "returned"
    /\ InRange(query) = {3}
    /\ Distance(query, listing[3]) = MAXIMUM_DITANCE_MILES
    /\ Distance(query, listing[1]) > MAXIMUM_DITANCE_MILES
    /\ result # NoneOpt
    /\ result[1][1] = listing[3].id
    /\ result[1][1] # listing[1].id

(***************************************************************************)
(* Claims about the filter's loop.                                         *)
(***************************************************************************)
\* C21: whatever the length of get_bars' output, the progress report at the
\* top of the loop does not abort the run: from the top of the loop the
\* filter never panics.
C21_ProgressNeverAborts ==
    [][(fpc = "loop") => fpc' # "panicked"]_vars

\* C21 witness: a list of one venue or two, and the filter has panicked on
\* the first venue before anything was visited or fetched.
C21_Witness ==
    /\ fpc = "panicked"
    /\ Len(bars) >= 1
    /\ Len(bars) < PROGRESS_STEPS
    /\ bars_100 = 0
    /\ processed = 0
    /\ visited = {}
    /\ tipFetches = <<>>

\* The venue's state is absent or is not "NY".
OutOfRegion(bar) == bar.location.state # Some("NY")

\* C22: a venue without a state or with a state other than "NY" gets no tips
\* fetch and no Bar, its id is recorded as visited all the same, and a later
\* venue with a visited id is skipped whatever its state.
C22_RegionFilter ==
    /\ [][(processed' = processed + 1) =>
            LET bar == bars[processed + 1]
            IN  /\ bar.id \in visited'
                /\ (OutOfRegion(bar) \/ bar.id \in visited) =>
                       /\ tipFetches' = tipFetches
                       /\ pickle_bars' = pickle_bars
                       /\ fpc' = "loop"]_vars
    /\ [](\A i \in 1..processed :
             OutOfRegion(bars[FirstIndex(bars, bars[i].id)]) =>
                /\ \A k \in 1..Len(tipFetches) : tipFetches[k] # bars[i].id
                /\ \A k \in 1..Len(pickle_bars) : pickle_bars[k].id # bars[i].id)

\* C22 witness: the filter returned; an id that came first with state "NJ"
\* and then with "NY", and a venue without a state, whose reviews match, got
\* no fetch and no Bar, while other venues did.
C22_Witness ==
    /\ fpc = "returned"
    /\ Len(bars) >= PROGRESS_STEPS
    /\ bars[1].location.state = Some("NJ")
    /\ bars[2].location.state = Some("NY")
    /\ bars[1].id = bars[2].id
    /\ tipsOf[bars[1].id] # <<>>
    /\ MatchesPhrase(tipsOf[bars[1].id][1])
    /\ \A k \in 1..Len(tipFetches) : tipFetches[k] # bars[1].id
    /\ \A k \in 1..Len(pickle_bars) : pickle_bars[k].id # bars[1].id
    /\ Len(pickle_bars) >= 1

=============================================================================
